---------------------------- MODULE Spec2Model ----------------------------
(***************************************************************************)
(* Organic Chemistry Daily Radar: the run() pipeline of main.py with the   *)
(* helpers of utils.py.  One run fetches a feed, removes duplicates, loads *)
(* the store of pushed DOIs, screens every candidate through the two-layer *)
(* classifier, assembles the final selection, pushes it to Feishu and, on  *)
(* a confirmed push, writes the store back.                                *)
(*                                                                         *)
(* A Python string is a sequence of one-character strings, so that strip() *)
(* and lower() are computed and not assumed.                               *)
(***************************************************************************)
EXTENDS Naturals, Sequences, FiniteSets

\* ------------------------------------------------------------------ bounds
\* Longest feed window one run of the main specification fetches.
MaxFeed == 3
\* Number of consecutive runs sharing the store file.
MaxRuns == 2
\* Length of the long feed of the quota specification: two articles the
\* loop passes over and fifteen it classifies, one more than both quotas
\* and one cut article need.
LongLen == 17
\* Longest input list given to deduplicate_by_doi on its own.
MaxDedupLen == 3
\* Largest set given to save_pushed_dois on its own.
MaxStoreSet == 3

\* ------------------------------------------------------- program constants
MAX_CARBENE == 8
MAX_METHODOLOGY == 5

\* ----------------------------------------------------------------- strings
\* The characters in use, in code point order (sorted() compares code points).
Alphabet == <<" ", "/", "1", ":", "A", "B", "a", "b", "c", "d", "e", "i", "l", "t", "x">>

Ord(c) == CHOOSE i \in 1..Len(Alphabet) : Alphabet[i] = c

Range(s) == {s[i] : i \in 1..Len(s)}

\* str.lower(), one character.
LowerChar(c) == IF c = "A" THEN "a" ELSE IF c = "B" THEN "b" ELSE c

\* str.lower()
Lower(s) == [i \in 1..Len(s) |-> LowerChar(s[i])]

IsSpace(c) == c = " "

RECURSIVE LStrip(_)
LStrip(s) == IF s # <<>> /\ IsSpace(Head(s)) THEN LStrip(Tail(s)) ELSE s

RECURSIVE RStrip(_)
RStrip(s) ==
    IF s # <<>> /\ IsSpace(s[Len(s)]) THEN RStrip(SubSeq(s, 1, Len(s) - 1)) ELSE s

\* str.strip()
Strip(s) == RStrip(LStrip(s))

\* (x or "").strip().lower()
StripLower(s) == Lower(Strip(s))

\* s <= t for Python strings (lexicographic on code points).
RECURSIVE StrLeq(_, _)
StrLeq(s, t) ==
    IF s = <<>> THEN TRUE
    ELSE IF t = <<>> THEN FALSE
    ELSE IF Head(s) = Head(t) THEN StrLeq(Tail(s), Tail(t))
    ELSE Ord(Head(s)) < Ord(Head(t))

\* sorted(S) for a set of strings.
RECURSIVE Sorted(_)
Sorted(S) ==
    IF S = {} THEN <<>>
    ELSE LET m == CHOOSE x \in S : \A y \in S : StrLeq(x, y)
         IN  <<m>> \o Sorted(S \ {m})

\* xs[:n]
Take(xs, n) == SubSeq(xs, 1, IF Len(xs) < n THEN Len(xs) ELSE n)

\* ------------------------------------------------------------------- utils
TitlePrefix == <<"t", "i", "t", "l", "e", ":", ":">>

\* Mutant of DedupKey: the DOI and the title are compared as they are spelled.
DedupKeyAsSpelled(item) ==
    IF item.doi # <<>> THEN item.doi ELSE TitlePrefix \o item.title

\* The key of deduplicate_by_doi: the DOI, else "title::" + title.
DedupKey(item) ==
    LET doi == StripLower(item.doi)
        fallback == StripLower(item.title)
    IN  IF doi # <<>> THEN doi ELSE TitlePrefix \o fallback

RECURSIVE DedupFrom(_, _)
DedupFrom(items, seen) ==
    IF items = <<>> THEN <<>>
    ELSE LET key == DedupKey(Head(items))
         IN  IF key \in seen THEN DedupFrom(Tail(items), seen)
             ELSE <<Head(items)>> \o DedupFrom(Tail(items), seen \cup {key})

deduplicate_by_doi(items) == DedupFrom(items, {})

\* The store file: what is on disk under DOI_STORE.
\*   missing     no such file
\*   unreadable  read_text raises OSError (data: the list on disk, if the
\*               file holds one that cannot be read now)
\*   badutf8     the bytes are not UTF-8: read_text raises UnicodeDecodeError
\*   empty       zero bytes
\*   garbage     text that is not JSON (a cut-off write among them)
\*   notlist     JSON, but not a list
\*   list        a JSON list of strings, in data
StoreFile(kind, data) == [kind |-> kind, data |-> data]

\* load_pushed_dois raises: UnicodeDecodeError is a ValueError that is neither
\* a JSONDecodeError nor an OSError.
LoadRaises(f) == f.kind = "badutf8"

load_pushed_dois(f) ==
    IF f.kind = "list"
    THEN {StripLower(x) : x \in {y \in Range(f.data) : Strip(y) # <<>>}}
    ELSE {}

\* The text save_pushed_dois writes.
SavedList(dois) ==
    Sorted({StripLower(d) : d \in {e \in dois : e # <<>> /\ Strip(e) # <<>>}})

\* write_text: "ok" writes everything; an OSError leaves the file as it was
\* (open failed), empty (truncated by open) or cut off (a partial write).
WriteResults == {"ok", "open_failed", "truncated", "partial"}

\* Mutant of save_pushed_dois: the new entries are added to the list the file
\* already holds.
SaveMerging(dois, old, wr) ==
    CASE wr = "ok" -> StoreFile("list", SavedList(dois \cup load_pushed_dois(old)))
      [] wr = "open_failed" -> old
      [] wr = "truncated" -> StoreFile("empty", <<>>)
      [] wr = "partial" -> StoreFile("garbage", <<>>)

save_pushed_dois(dois, old, wr) ==
    CASE wr = "ok" -> StoreFile("list", SavedList(dois))
      [] wr = "open_failed" -> old
      [] wr = "truncated" -> StoreFile("empty", <<>>)
      [] wr = "partial" -> StoreFile("garbage", <<>>)

\* ---------------------------------------------------------------- articles
\* An article record of the fetcher; a missing field and an empty one are
\* both <<>> (the code reads them with `x.get(k) or ""` and `not x.get(k)`).
Article(doi, title, abstract) == [doi |-> doi, title |-> title, abstract |-> abstract]

\* The publication stream the small feeds are windows of: an article with a
\* DOI, the same DOI spelled differently, a second DOI, an article without
\* DOI, the same title spelled differently, an article with neither DOI nor
\* title, and one without abstract.
Stream ==
    << Article(<<"1", "/", "a">>, <<"a">>, <<"x">>),
       Article(<<" ", "1", "/", "A">>, <<"a">>, <<"x">>),
       Article(<<"1", "/", "c">>, <<"c">>, <<"x">>),
       Article(<<>>, <<"b">>, <<"x">>),
       Article(<<>>, <<" ", "B">>, <<"x">>),
       Article(<<>>, <<>>, <<"x">>),
       Article(<<"1", "/", "d">>, <<"d">>, <<>>) >>

\* What fetch_recent_articles may return in the main specification: any
\* window of the stream of at most MaxFeed articles (the empty one included).
Feeds ==
    {SubSeq(Stream, w[1], w[1] + w[2] - 1) :
        w \in {v \in (1..Len(Stream)) \X (0..MaxFeed) : v[1] + v[2] - 1 <= Len(Stream)}}

Letters == <<"a", "b", "c", "d", "e">>

\* The k-th article of the long feed: DOIs and titles all different; the
\* fifth has no abstract.
LongArticle(k) ==
    LET name == <<Letters[(k \div 5) + 1], Letters[(k % 5) + 1]>>
    IN  Article(<<"1", "/">> \o name, <<"t">> \o name,
                IF k = 5 THEN <<>> ELSE <<"x">>)

LongFeed(n) == [k \in 1..n |-> LongArticle(k)]

\* What fetch_recent_articles may return in the quota specification.
LongFeeds == {LongFeed(LongLen)}

\* The store files a first run may find.  The file is an input of run():
\* load_pushed_dois takes whatever is on disk, so next to the damaged files
\* there is a list that was not written normalized (a DOI with capitals and
\* blanks, a blank entry) and a list holding a title-derived identifier.
InitFiles ==
    { StoreFile("missing", <<>>),
      StoreFile("unreadable", <<>>),
      StoreFile("unreadable", << <<"1", "/", "c">> >>),
      StoreFile("badutf8", <<>>),
      StoreFile("empty", <<>>),
      StoreFile("garbage", <<>>),
      StoreFile("notlist", <<>>),
      StoreFile("list", << <<"1", "/", "A", " ">>, <<" ">> >>),
      StoreFile("list", << <<"t", "i", "t", "l", "e", ":", ":", "b">> >>) }

\* The store file the quota run finds: the third long article was pushed.
LongInitFiles == { StoreFile("list", <<LongArticle(3).doi>>) }

\* ------------------------------------------------------------ collaborators
\* SemanticFilter.fast_screen (layer 1), called at main.py line 70: passes,
\* rejects, or raises.  semantic_filter.py as it stands does not define it
\* (main.py line 12 asks for its hybrid version), so there the call raises
\* AttributeError, which is the outcome "raise".
FastScreenResults == {"pass", "reject", "raise"}

\* SemanticFilter.analyze_article (layer 2): None, or a result whose
\* category is the stripped text the service answered.
AnalyzeResults == {"None", "carbene", "methodology", "none", "Carbene"}

\* The answers of the two layers for one candidate.
Answers(FS, AR) ==
    {[screen |-> fs, result |-> "uncalled"] : fs \in FS \ {"pass"}} \cup
    {[screen |-> "pass", result |-> r] : r \in (IF "pass" \in FS THEN AR ELSE {})}

AllAnswers == Answers(FastScreenResults, AnalyzeResults)

\* The quota specification's classifier only passes and only answers with a
\* configured category.
QuotaAnswers == Answers({"pass"}, {"carbene", "methodology"})

\* fetch_recent_articles: a list out of F, or an exception.
FetchResults(F) ==
    {[raised |-> FALSE, articles |-> f] : f \in F} \cup
    {[raised |-> TRUE, articles |-> <<>>]}

\* FeishuBot(), build_card and send_card: a step raises, or send_card
\* returns False or True.
DeliveryResults == {"init_raise", "build_raise", "send_raise", "false", "true"}

\* What the request of send_card can do (feishu_bot.py lines 127-130):
\*   connection_error, timeout   requests.post raises
\*   http_error                  raise_for_status raises HTTPError
\*   invalid_json                response.json() raises requests' JSONDecodeError
\*   json_value_error            response.json() raises a plain ValueError
\*                               (requests before 2.27)
\*   not_object                  the body is JSON but no object: data.get raises
\*   code_0, code_other, no_code the body is an object; its "code" member
HttpOutcomes ==
    {"connection_error", "timeout", "http_error", "invalid_json",
     "json_value_error", "not_object", "code_0", "code_other", "no_code"}

\* Mutant of send_card: success is that the request completed with a body.
SendCardOnCompletion(h) ==
    IF h \in {"code_0", "code_other", "no_code"} THEN "true"
    ELSE IF h \in {"json_value_error", "not_object"} THEN "send_raise"
    ELSE "false"

\* FeishuBot.send_card: True when the body's code is 0; False for the other
\* codes and for every requests.RequestException (lines 134-136); any other
\* exception leaves it.
send_card(h) ==
    IF h = "code_0" THEN "true"
    ELSE IF h \in {"json_value_error", "not_object"} THEN "send_raise"
    ELSE "false"

\* How the notification goes when the request did h ("none": FeishuBot() or
\* build_card raised and there was no request).
DeliveryAfter(h) ==
    {d \in DeliveryResults :
        IF h = "none" THEN d \in {"init_raise", "build_raise"}
        ELSE d = send_card(h)}

\* ------------------------------------------------------------------- state
VARIABLES
    file,                \* the content of pushed_dois.json
    pc,                  \* where run() stands, or how it ended
    run,                 \* number of the current run
    raw_articles,        \* run(): what fetch_recent_articles returned
    candidates,          \* run(): deduplicate_by_doi(raw_articles)
    pushed_dois,         \* run(): the loaded store, plus the DOIs just pushed
    carbene_papers,      \* run(): the carbene bucket
    methodology_papers,  \* run(): the methodology bucket
    idx,                 \* run(): position of the for loop in candidates
    screener,            \* run(): the SemanticFilter ("unset", "built", or "failed")
    final_selection,     \* run(): the list handed to the bot
    delivery,            \* how the notification went in this run ("none": not tried)
    written,             \* how the write of the store went in this run ("none": not tried)
    fileAtStart,         \* history: the store file when the run started
    loaded,              \* history: what load_pushed_dois returned in this run
    calls,               \* history: the classifier calls of this run, in order
    delivered,           \* history: the articles earlier runs pushed with success
                         \* and whose store write completed
    prev,                \* history: the previous run, if its push failed and
                         \* this run has replayed it so far
    http,                \* history: what the request of send_card did in this
                         \* run ("none": send_card was not called)
    attempt,             \* analyze_article(): the loop variable
    api_calls,           \* history: the answers the API gave to this
                         \* analyze_article call, in order
    result               \* analyze_article(): what it returned ("pending":
                         \* it has not returned)

vars ==
    << file, pc, run, raw_articles, candidates, pushed_dois, carbene_papers,
       methodology_papers, idx, screener, final_selection, delivery, written,
       fileAtStart, loaded, calls, delivered, prev, http, attempt, api_calls,
       result >>

\* analyze_article is not running.
AnalyzeIdle == attempt = 1 /\ api_calls = <<>> /\ result = "pending"

\* The ways run() ends: the returns of lines 35, 52 and 107, the end of the
\* function (line 131), and an exception leaving it.
Ended == {"ret_no_articles", "ret_filter", "ret_empty", "ret_end", "raised"}

NoPrev == [live |-> FALSE, feed |-> <<>>, calls |-> <<>>, selection |-> <<>>]

\* {**article, **result}, as far as run() and the store read it.
Merged(article, category) ==
    [doi |-> article.doi, title |-> article.title,
     abstract |-> article.abstract, category |-> category]

\* The article of a merged item.
ArticleOf(item) == Article(item.doi, item.title, item.abstract)

StartOfRun ==
    /\ pc = "fetch"
    /\ raw_articles = <<>>
    /\ candidates = <<>>
    /\ pushed_dois = {}
    /\ carbene_papers = <<>>
    /\ methodology_papers = <<>>
    /\ idx = 1
    /\ screener = "unset"
    /\ final_selection = <<>>
    /\ delivery = "none"
    /\ written = "none"
    /\ loaded = {}
    /\ calls = <<>>
    /\ http = "none"

InitFrom(files) ==
    /\ file \in files
    /\ fileAtStart = file
    /\ run = 1
    /\ delivered = {}
    /\ prev = NoPrev
    /\ StartOfRun
    /\ AnalyzeIdle

Init == InitFrom(InitFiles)

InitQuota == InitFrom(LongInitFiles)

\* ----------------------------------------------------------------- actions
\* Lines 26-45: fetch (an exception counts as nothing fetched), return when
\* nothing was fetched, remove duplicates, load the store.
Fetch(F) ==
    /\ UNCHANGED <<http, attempt, api_calls, result>>
    /\ pc = "fetch"
    /\ \E res \in FetchResults(F) :
          LET r == IF res.raised THEN <<>> ELSE res.articles
          IN
          IF r = <<>>
          THEN /\ pc' = "ret_no_articles"
               /\ prev' = NoPrev
               /\ UNCHANGED <<raw_articles, candidates, pushed_dois, loaded>>
          ELSE /\ raw_articles' = r
               /\ candidates' = deduplicate_by_doi(r)
               /\ prev' = IF prev.live /\ prev.feed = r THEN prev ELSE NoPrev
               /\ IF LoadRaises(file)
                  THEN /\ pc' = "raised"
                       /\ UNCHANGED <<pushed_dois, loaded>>
                  ELSE /\ pc' = "filter"
                       /\ pushed_dois' = load_pushed_dois(file)
                       /\ loaded' = load_pushed_dois(file)
    /\ UNCHANGED << file, run, carbene_papers, methodology_papers, idx,
                    screener, final_selection, delivery, written, fileAtStart,
                    calls, delivered >>

\* Mutant of AfterFilterInit: the exception is logged and the run goes on.
AfterFilterInitGoesOn(ok) == "loop"

\* Where run() goes after SemanticFilter(): on, or out when it raised.
AfterFilterInit(ok) == IF ok THEN "loop" ELSE "ret_filter"

\* Lines 47-52: build the classifier; it raises when the API key is not set.
InitFilter ==
    /\ UNCHANGED <<http, attempt, api_calls, result>>
    /\ pc = "filter"
    /\ \E ok \in BOOLEAN :
          /\ screener' = IF ok THEN "built" ELSE "failed"
          /\ pc' = AfterFilterInit(ok)
    /\ UNCHANGED << file, run, raw_articles, candidates, pushed_dois,
                    carbene_papers, methodology_papers, idx, final_selection,
                    delivery, written, fileAtStart, loaded, calls, delivered,
                    prev >>

\* Lines 60-61: the DOI of the article was pushed before.
AlreadyPushed(article, pushed) ==
    LET doi == StripLower(article.doi)
    IN  doi # <<>> /\ doi \in pushed

\* Mutant of Incomplete: only the title is required.
IncompleteTitleOnly(article) == article.title = <<>>

\* Line 65: the title or the abstract is missing.
Incomplete(article) == article.title = <<>> \/ article.abstract = <<>>

\* Lines 70-79: the classifier gave a result for the candidate.
HasResult(a) == a.screen = "pass" /\ a.result # "None"

\* Lines 81-88: the buckets after the candidate was answered with a.
CarbeneAfter(bucket, article, a) ==
    IF HasResult(a) /\ a.result = "carbene"
    THEN Append(bucket, Merged(article, a.result))
    ELSE bucket

\* Mutant of MethodologyAfter: every result that is not carbene counts as
\* methodology (`else` in place of `elif category == "methodology"`).
MethodologyAfterElse(bucket, article, a) ==
    IF HasResult(a) /\ a.result # "carbene"
    THEN Append(bucket, Merged(article, a.result))
    ELSE bucket

MethodologyAfter(bucket, article, a) ==
    IF HasResult(a) /\ a.result = "methodology"
    THEN Append(bucket, Merged(article, a.result))
    ELSE bucket

\* Mutant of QuotasReached: one full bucket ends the screening.
QuotasReachedEither(carbene, methodology) ==
    Len(carbene) >= MAX_CARBENE \/ Len(methodology) >= MAX_METHODOLOGY

\* Line 91: both buckets are full.
QuotasReached(carbene, methodology) ==
    Len(carbene) >= MAX_CARBENE /\ Len(methodology) >= MAX_METHODOLOGY

\* Mutant of AfterAnswer: a failed classification ends the screening.
AfterAnswerAbortsOnFailure(a, carbene, methodology, last) ==
    IF (HasResult(a) /\ QuotasReached(carbene, methodology)) \/ last
       \/ a.screen = "raise" \/ (a.screen = "pass" /\ a.result = "None")
    THEN "assemble"
    ELSE "loop"

\* Lines 58, 78-79, 91-97: where the loop stands after an answer: a result
\* with both buckets full breaks, everything else (no result, an exception)
\* goes on with the next candidate, if there is one.
AfterAnswer(a, carbene, methodology, last) ==
    IF (HasResult(a) /\ QuotasReached(carbene, methodology)) \/ last
    THEN "assemble"
    ELSE "loop"

\* The answer the previous run got for this article, if it asked.
ReplaysAnswer(article, a) ==
    \A k \in 1..Len(prev.calls) :
        deduplicate_by_doi(prev.feed)[prev.calls[k].i] = article
            => (prev.calls[k].screen = a.screen /\ prev.calls[k].result = a.result)

\* Lines 58-97: one round of the loop, for candidates[idx], with the answers
\* of the classifier drawn from Ans.
LoopIteration(Ans) ==
    /\ UNCHANGED <<http, attempt, api_calls, result>>
    /\ pc = "loop"
    /\ LET article == candidates[idx]
           last == idx + 1 > Len(candidates)
       IN  IF AlreadyPushed(article, pushed_dois) \/ Incomplete(article)
           THEN /\ pc' = IF last THEN "assemble" ELSE "loop"
                /\ UNCHANGED <<carbene_papers, methodology_papers, calls, prev>>
           ELSE \E a \in Ans :
                /\ carbene_papers' = CarbeneAfter(carbene_papers, article, a)
                /\ methodology_papers' =
                       MethodologyAfter(methodology_papers, article, a)
                /\ pc' = AfterAnswer(a, carbene_papers', methodology_papers', last)
                /\ calls' = Append(calls, [i |-> idx, screen |-> a.screen,
                                           result |-> a.result])
                /\ prev' = IF prev.live /\ ReplaysAnswer(article, a)
                           THEN prev ELSE NoPrev
    /\ idx' = idx + 1
    /\ UNCHANGED << file, run, raw_articles, candidates, pushed_dois,
                    screener, final_selection, delivery, written, fileAtStart, loaded,
                    delivered >>

\* Mutant of FinalSelection: the carbene bucket is not cut.
FinalSelectionUncut(carbene, methodology) ==
    carbene \o Take(methodology, MAX_METHODOLOGY)

\* Line 101.
FinalSelection(carbene, methodology) ==
    Take(carbene, MAX_CARBENE) \o Take(methodology, MAX_METHODOLOGY)

\* Mutant of AfterAssemble: the card is built and sent for an empty list too
\* (build_card has a branch for it, feishu_bot.py lines 49-53).
AfterAssembleAlwaysNotifies(selection) == "notify"

\* Lines 105-107: run() returns when the final list is empty.
AfterAssemble(selection) == IF selection = <<>> THEN "ret_empty" ELSE "notify"

\* Lines 99-107: assemble the final list; return when it is empty.
Assemble ==
    /\ UNCHANGED <<http, attempt, api_calls, result>>
    /\ pc = "assemble"
    /\ final_selection' = FinalSelection(carbene_papers, methodology_papers)
    /\ pc' = AfterAssemble(final_selection')
    /\ UNCHANGED << file, run, raw_articles, candidates, pushed_dois,
                    carbene_papers, methodology_papers, idx, screener,
                    delivery, written, fileAtStart, loaded, calls, delivered,
                    prev >>

\* Mutant of Commits: the store is updated on any answer of send_card.
CommitsOnAnyAnswer(d) == d \in {"true", "false"}

\* Mutant of Commits: the store is updated in a finally block.
CommitsAlways(d) == TRUE

\* Line 115: the store is updated when send_card returned True.
Commits(d) == d = "true"

\* Lines 120-123: the DOIs of the pushed items join the set.
PushedAfter(pushed, selection) ==
    pushed \cup {StripLower(selection[k].doi) :
                    k \in {j \in 1..Len(selection) : StripLower(selection[j].doi) # <<>>}}

\* Lines 109-131: build the bot and the card, send it, and on success record
\* the DOIs and write the store; an exception of any step, the write
\* included, is logged.
Notify ==
    /\ UNCHANGED <<attempt, api_calls, result>>
    /\ pc = "notify"
    /\ \E h \in {"none"} \cup HttpOutcomes : \E d \in DeliveryAfter(h) :
          /\ http' = h
          /\ delivery' = d
          /\ IF Commits(d)
             THEN \E wr \in WriteResults :
                    /\ pushed_dois' = PushedAfter(pushed_dois, final_selection)
                    /\ file' = save_pushed_dois(pushed_dois', file, wr)
                    /\ written' = wr
             ELSE UNCHANGED <<pushed_dois, file, written>>
    /\ pc' = "ret_end"
    /\ UNCHANGED << run, raw_articles, candidates, carbene_papers,
                    methodology_papers, idx, screener, final_selection, fileAtStart,
                    loaded, calls, delivered, prev >>

\* The push of the run that just ended failed.
PushFailed == pc = "ret_end" /\ delivery # "true"

\* The next day's run starts, on the store file the last one left.
NextRun ==
    /\ UNCHANGED <<attempt, api_calls, result>>
    /\ pc \in Ended
    /\ run < MaxRuns
    /\ run' = run + 1
    /\ pc' = "fetch"
    /\ raw_articles' = <<>>
    /\ candidates' = <<>>
    /\ pushed_dois' = {}
    /\ carbene_papers' = <<>>
    /\ methodology_papers' = <<>>
    /\ idx' = 1
    /\ screener' = "unset"
    /\ final_selection' = <<>>
    /\ delivery' = "none"
    /\ written' = "none"
    /\ http' = "none"
    /\ loaded' = {}
    /\ calls' = <<>>
    /\ fileAtStart' = file
    /\ delivered' =
           IF pc = "ret_end" /\ delivery = "true" /\ written = "ok"
           THEN delivered \cup {ArticleOf(final_selection[k]) :
                                   k \in 1..Len(final_selection)}
           ELSE delivered
    /\ prev' = IF PushFailed
               THEN [live |-> TRUE, feed |-> raw_articles, calls |-> calls,
                     selection |-> final_selection]
               ELSE NoPrev
    /\ UNCHANGED file

Next ==
    \/ Fetch(Feeds)
    \/ InitFilter
    \/ LoopIteration(AllAnswers)
    \/ Assemble
    \/ Notify
    \/ NextRun

Spec == Init /\ [][Next]_vars

\* ------------------------------------------- deduplicate_by_doi on its own
\* The lists deduplicate_by_doi is given: every list of at most MaxDedupLen
\* articles of the stream, repetitions included.
DedupInputs ==
    UNION {[1..n -> Range(Stream)] : n \in 0..MaxDedupLen}

InitDedup ==
    /\ pc = "dedup_in"
    /\ raw_articles \in DedupInputs
    /\ candidates = <<>>
    /\ file = StoreFile("missing", <<>>)
    /\ fileAtStart = file
    /\ run = 1
    /\ pushed_dois = {}
    /\ carbene_papers = <<>>
    /\ methodology_papers = <<>>
    /\ idx = 1
    /\ screener = "unset"
    /\ final_selection = <<>>
    /\ delivery = "none"
    /\ written = "none"
    /\ loaded = {}
    /\ calls = <<>>
    /\ delivered = {}
    /\ prev = NoPrev
    /\ http = "none"
    /\ AnalyzeIdle

\* candidates = deduplicate_by_doi(raw_articles), main.py line 38.
Dedup ==
    /\ UNCHANGED <<http, attempt, api_calls, result>>
    /\ pc = "dedup_in"
    /\ candidates' = deduplicate_by_doi(raw_articles)
    /\ pc' = "dedup_out"
    /\ UNCHANGED << file, run, raw_articles, pushed_dois, carbene_papers,
                    methodology_papers, idx, screener, final_selection,
                    delivery, written, fileAtStart, loaded, calls, delivered,
                    prev >>

\* deduplicate_by_doi applied to its own output.
DedupAgain ==
    /\ UNCHANGED <<http, attempt, api_calls, result>>
    /\ pc = "dedup_out"
    /\ candidates' = deduplicate_by_doi(candidates)
    /\ pc' = "dedup_again"
    /\ UNCHANGED << file, run, raw_articles, pushed_dois, carbene_papers,
                    methodology_papers, idx, screener, final_selection,
                    delivery, written, fileAtStart, loaded, calls, delivered,
                    prev >>

NextDedup ==
    \/ Dedup
    \/ DedupAgain

SpecDedup == InitDedup /\ [][NextDedup]_vars

\* ---------------------------- save_pushed_dois and load_pushed_dois alone
\* The strings the sets given to save_pushed_dois are made of: a DOI, the
\* same DOI with a blank and a capital, the empty string, a blank, and a
\* title in two spellings.
StorePool ==
    { <<"1", "/", "a">>, <<" ", "1", "/", "A">>, <<>>, <<" ">>,
      <<"b">>, <<"B", " ">> }

StoreInputs == {S \in SUBSET StorePool : Cardinality(S) <= MaxStoreSet}

InitStore ==
    /\ pc = "store_in"
    /\ file \in InitFiles
    /\ fileAtStart = file
    /\ pushed_dois \in StoreInputs
    /\ raw_articles = <<>>
    /\ candidates = <<>>
    /\ run = 1
    /\ carbene_papers = <<>>
    /\ methodology_papers = <<>>
    /\ idx = 1
    /\ screener = "unset"
    /\ final_selection = <<>>
    /\ delivery = "none"
    /\ written = "none"
    /\ loaded = {}
    /\ calls = <<>>
    /\ delivered = {}
    /\ prev = NoPrev
    /\ http = "none"
    /\ AnalyzeIdle

\* save_pushed_dois(pushed_dois, DOI_STORE), main.py line 124.
Save ==
    /\ UNCHANGED <<http, attempt, api_calls, result>>
    /\ pc = "store_in"
    /\ \E wr \in WriteResults :
          /\ file' = save_pushed_dois(pushed_dois, file, wr)
          /\ written' = wr
    /\ pc' = "store_saved"
    /\ UNCHANGED << run, raw_articles, candidates, pushed_dois, carbene_papers,
                    methodology_papers, idx, screener, final_selection,
                    delivery, fileAtStart, loaded, calls, delivered, prev >>

\* load_pushed_dois(DOI_STORE), main.py line 42.
Load ==
    /\ UNCHANGED <<http, attempt, api_calls, result>>
    /\ pc = "store_saved"
    /\ IF LoadRaises(file)
       THEN pc' = "raised" /\ UNCHANGED loaded
       ELSE pc' = "store_loaded" /\ loaded' = load_pushed_dois(file)
    /\ UNCHANGED << file, run, raw_articles, candidates, pushed_dois,
                    carbene_papers, methodology_papers, idx, screener,
                    final_selection, delivery, written, fileAtStart, calls,
                    delivered, prev >>

\* save_pushed_dois of the set that was just loaded.
SaveLoaded ==
    /\ UNCHANGED <<http, attempt, api_calls, result>>
    /\ pc = "store_loaded"
    /\ \E wr \in WriteResults :
          /\ file' = save_pushed_dois(loaded, file, wr)
          /\ written' = wr
    /\ pc' = "store_resaved"
    /\ UNCHANGED << run, raw_articles, candidates, pushed_dois, carbene_papers,
                    methodology_papers, idx, screener, final_selection,
                    delivery, fileAtStart, loaded, calls, delivered, prev >>

NextStore ==
    \/ Save
    \/ Load
    \/ SaveLoaded

SpecStore == InitStore /\ [][NextStore]_vars

\* ----------------------------------------------- analyze_article on its own
\* range(1, 4) of line 70 and `attempt < 3` of line 108: the attempts.
MaxAttempts == 3

ApiResponse(kind, category) == [kind |-> kind, category |-> category]

\* What one call of client.chat.completions.create brings (lines 72-81):
\*   api_error, api_timeout  the call raises
\*   no_choices              response.choices is empty: choices[0] raises
\*   NO, no                  the text "NO" in capitals or not
\*   empty, not_json         no text, or text that json.loads rejects
\*   not_object              JSON that is no object
\*   no_title_zh, no_abstract_zh, no_recommendation
\*                           an object that lacks this key
\*   object                  an object with the three keys and a category
\*                           ("absent": it has no "category" member)
ApiResponses ==
    {ApiResponse(k, "absent") :
        k \in {"api_error", "api_timeout", "no_choices", "NO", "no", "empty",
               "not_json", "not_object", "no_title_zh", "no_abstract_zh",
               "no_recommendation"}} \cup
    {ApiResponse("object", c) :
        c \in {"carbene", "methodology", "none", "Carbene", "absent"}}

\* One round of the try block, lines 71-105: "exception" when it lands in
\* `except Exception`, else what the round returns.
AttemptResult(resp) ==
    IF resp.kind \in {"api_error", "api_timeout", "no_choices"} THEN "exception"
    ELSE IF resp.kind \in {"NO", "no"} THEN "None"
    ELSE IF resp.kind \in {"empty", "not_json"} THEN "None"
    ELSE IF resp.kind = "not_object" THEN "None"
    ELSE IF resp.kind \in {"no_title_zh", "no_abstract_zh", "no_recommendation"}
         THEN "None"
    ELSE IF resp.category = "absent" THEN "none"
    ELSE resp.category

\* Mutant of GivesUp: one attempt more.
GivesUpLater(n) == n >= MaxAttempts + 1

\* Lines 108-111: after an exception the loop sleeps and goes on, unless this
\* was the last attempt.
GivesUp(n) == n >= MaxAttempts

InitAnalyze ==
    /\ pc = "analyze"
    /\ AnalyzeIdle
    /\ file = StoreFile("missing", <<>>)
    /\ fileAtStart = file
    /\ raw_articles = <<Stream[1]>>
    /\ candidates = raw_articles
    /\ run = 1
    /\ pushed_dois = {}
    /\ carbene_papers = <<>>
    /\ methodology_papers = <<>>
    /\ idx = 1
    /\ screener = "built"
    /\ final_selection = <<>>
    /\ delivery = "none"
    /\ written = "none"
    /\ loaded = {}
    /\ calls = <<>>
    /\ delivered = {}
    /\ prev = NoPrev
    /\ http = "none"

\* One round of the loop of analyze_article: the API call and what the
\* round does with its answer.
ApiCall ==
    /\ pc = "analyze"
    /\ \E resp \in ApiResponses :
          LET r == AttemptResult(resp)
          IN  /\ api_calls' = Append(api_calls, resp)
              /\ IF r = "exception" /\ ~GivesUp(attempt)
                 THEN /\ attempt' = attempt + 1
                      /\ pc' = "analyze"
                      /\ UNCHANGED result
                 ELSE /\ result' = IF r = "exception" THEN "None" ELSE r
                      /\ pc' = "analyze_done"
                      /\ UNCHANGED attempt
    /\ UNCHANGED << file, run, raw_articles, candidates, pushed_dois,
                    carbene_papers, methodology_papers, idx, screener,
                    final_selection, delivery, written, fileAtStart, loaded,
                    calls, delivered, prev, http >>

NextAnalyze == ApiCall

\* The API call is made with a timeout and the sleep between attempts ends:
\* a round that can be taken is taken.
SpecAnalyze == InitAnalyze /\ [][NextAnalyze]_vars /\ WF_vars(NextAnalyze)

\* One run over the long feed.
NextQuota ==
    \/ Fetch(LongFeeds)
    \/ InitFilter
    \/ LoopIteration(QuotaAnswers)
    \/ Assemble
    \/ Notify

SpecQuota == InitQuota /\ [][NextQuota]_vars

\* ------------------------------------------------------------------ claims
\* The set of the items of a sequence.
Items(xs) == {xs[k] : k \in 1..Len(xs)}

\* The identifier of the specification: the normalized DOI if there is one,
\* else "title::" + the normalized title (empty when the article has neither).
Identifier(a) ==
    IF StripLower(a.doi) # <<>> THEN StripLower(a.doi)
    ELSE IF StripLower(a.title) # <<>> THEN TitlePrefix \o StripLower(a.title)
    ELSE <<>>

\* The candidates the classifier was called for in this run.
Called == {candidates[calls[k].i] : k \in 1..Len(calls)}

\* C1: when the notification returns False or raises (FeishuBot(), build_card
\* or send_card), the store file after the run is the file before the run,
\* the store was not written and nothing joined the pushed set; the file
\* changes or is written in a run only after send_card returned True.
C1_FailedPushLeavesStore ==
    /\ (pc = "ret_end" /\ delivery # "true")
          => (file = fileAtStart /\ written = "none" /\ pushed_dois = loaded)
    /\ (file # fileAtStart \/ written # "none" \/ pushed_dois # loaded)
          => delivery = "true"

\* C1 happens: send_card returned False for a selection holding a DOI that
\* is not in the store.
C1_Witness ==
    /\ pc = "ret_end"
    /\ delivery = "false"
    /\ \E item \in Items(final_selection) :
          StripLower(item.doi) # <<>> /\ StripLower(item.doi) \notin loaded

\* C2 (as claimed): after a confirmed push and a completed write, the store
\* holds exactly the loaded set and the identifier (DOI, else title key) of
\* every pushed item that has one.
C2_StoreGainsIdentifiers ==
    (pc = "ret_end" /\ delivery = "true" /\ written = "ok")
       => /\ file.kind = "list"
          /\ Items(file.data) =
                loaded \cup {Identifier(ArticleOf(item)) :
                                item \in {x \in Items(final_selection) :
                                             Identifier(ArticleOf(x)) # <<>>}}

\* C3 (as claimed): a candidate whose identifier (DOI, else title key) is in
\* the loaded pushed set is never passed to the classifier and never part of
\* the final selection.
C3_PushedIdentifierSuppressed ==
    \A k \in 1..Len(candidates) :
        LET a == candidates[k]
        IN  (Identifier(a) # <<>> /\ Identifier(a) \in loaded)
               => /\ a \notin Called
                  /\ a \notin {ArticleOf(x) : x \in Items(final_selection)}

\* C4 (as claimed): an article pushed with success in an earlier run is not
\* part of the selection a later run pushes with success (here only for the
\* earlier runs that wrote the store completely).
C4_NeverPushedTwice ==
    (pc = "ret_end" /\ delivery = "true")
       => \A item \in Items(final_selection) : ArticleOf(item) \notin delivered

\* C5: when the push of a run failed and the next run fetches the same feed
\* and gets the same answers from the classifier, the next run selects the
\* same list.
C5_FailedPushIsRetried ==
    (prev.live /\ pc \in {"notify", "ret_empty", "ret_end"})
       => final_selection = prev.selection

\* C5 happens: the run after a failed push replayed it up to the push, with
\* a selection of two articles.
C5_Witness ==
    /\ prev.live
    /\ pc = "notify"
    /\ Len(final_selection) = 2
    /\ Len(calls) = Len(prev.calls)

\* The calls, among the first n of this run, that were answered with the
\* category cat.
AnsweredWith(cat, n) ==
    SelectSeq(SubSeq(calls, 1, n),
              LAMBDA c : c.screen = "pass" /\ c.result = cat)

\* The candidates the classifier put in the category cat, in call order.
ClassifiedAs(cat) ==
    LET cs == AnsweredWith(cat, Len(calls))
    IN  [k \in 1..Len(cs) |-> Merged(candidates[cs[k].i], cat)]

\* C6: the final list is the first MAX_CARBENE candidates classified carbene,
\* in input order, followed by the first MAX_METHODOLOGY candidates
\* classified methodology, in input order.
C6_SelectionIsQuotaPrefixes ==
    pc \in {"notify", "ret_empty", "ret_end"}
       => /\ final_selection =
                Take(ClassifiedAs("carbene"), MAX_CARBENE)
                   \o Take(ClassifiedAs("methodology"), MAX_METHODOLOGY)
          /\ \A j \in 1..Len(calls) : j > 1 => calls[j - 1].i < calls[j].i

\* C6 happens: more carbene articles than the quota were classified, so the
\* bucket is cut, and methodology articles follow.
C6_Witness ==
    /\ pc = "notify"
    /\ Len(ClassifiedAs("carbene")) > MAX_CARBENE
    /\ Len(ClassifiedAs("methodology")) > 0
    /\ Len(final_selection) > MAX_CARBENE

\* C7: the classifier is never called once both buckets have reached their
\* quota, the loop is never at a further candidate then, and the loop leaves
\* candidates unexamined only when both buckets have reached their quota.
C7_EarlyStop ==
    /\ \A k \in 1..Len(calls) :
          ~ (/\ Len(AnsweredWith("carbene", k - 1)) >= MAX_CARBENE
             /\ Len(AnsweredWith("methodology", k - 1)) >= MAX_METHODOLOGY)
    /\ pc = "loop"
          => ~ (/\ Len(carbene_papers) >= MAX_CARBENE
                /\ Len(methodology_papers) >= MAX_METHODOLOGY)
    /\ (pc \in {"assemble", "notify", "ret_empty", "ret_end"}
           /\ idx <= Len(candidates))
          => (/\ Len(carbene_papers) >= MAX_CARBENE
              /\ Len(methodology_papers) >= MAX_METHODOLOGY)

\* C7 happens: the loop stopped with candidates left.
C7_Witness ==
    /\ pc = "assemble"
    /\ idx <= Len(candidates)
    /\ Len(calls) < Len(candidates) - 2

\* C8: no candidate without title or without abstract is passed to the
\* classifier or part of the final selection.
C8_IncompleteNeverClassified ==
    /\ \A a \in Called : a.title # <<>> /\ a.abstract # <<>>
    /\ \A item \in Items(final_selection) :
          item.title # <<>> /\ item.abstract # <<>>

\* C8 happens: the loop went past a candidate without abstract and one
\* without title, and called the classifier for another one.
C8_Witness ==
    /\ pc = "assemble"
    /\ calls # <<>>
    /\ \E k \in 1..Len(candidates) :
          candidates[k].title # <<>> /\ candidates[k].abstract = <<>>
    /\ \E k \in 1..Len(candidates) : candidates[k].title = <<>>

\* The call failed: fast_screen raised, or analyze_article gave no result.
FailedCall(c) == c.screen = "raise" \/ (c.screen = "pass" /\ c.result = "None")

\* C9: a round of the loop in which the classification fails leaves both
\* buckets as they were and goes on with the next candidate, or with the
\* assembly of the selection when it was the last one.
C9_FailureSkipsOneCandidate ==
    [][ (pc = "loop" /\ Len(calls') = Len(calls) + 1
            /\ FailedCall(calls'[Len(calls')]))
           => /\ carbene_papers' = carbene_papers
              /\ methodology_papers' = methodology_papers
              /\ idx' = idx + 1
              /\ pc' = IF idx < Len(candidates) THEN "loop" ELSE "assemble"
      ]_vars

\* C9 happens: after a carbene article, fast_screen raised for the second
\* candidate, and the third was still classified and both were selected.
C9_Witness ==
    /\ pc = "notify"
    /\ Len(calls) = 3
    /\ calls[1].result = "carbene"
    /\ calls[2].screen = "raise"
    /\ calls[3].result = "methodology"
    /\ Len(final_selection) = 2

\* C10: when SemanticFilter() raised, run() has returned (line 52): no
\* candidate was classified, nothing was selected, no notification was
\* tried, and the store file is the file the run found.
C10_FilterFailureSelectsNothing ==
    screener = "failed"
       => /\ pc = "ret_filter"
          /\ calls = <<>>
          /\ carbene_papers = <<>>
          /\ methodology_papers = <<>>
          /\ final_selection = <<>>
          /\ delivery = "none"
          /\ written = "none"
          /\ file = fileAtStart

\* C10 happens: SemanticFilter() raised with classifiable candidates at hand.
C10_Witness ==
    /\ screener = "failed"
    /\ pc = "ret_filter"
    /\ \E k \in 1..Len(candidates) :
          /\ candidates[k].title # <<>>
          /\ candidates[k].abstract # <<>>
          /\ StripLower(candidates[k].doi) \notin loaded

\* C11: with an empty final selection run() returns (line 107) without
\* building the bot, sending a card or writing the store; a notification is
\* tried and the store written only for a selection that is not empty.
C11_EmptySelectionSendsNothing ==
    /\ (final_selection = <<>> /\ pc \in Ended)
          => (delivery = "none" /\ written = "none" /\ file = fileAtStart)
    /\ (delivery # "none" \/ written # "none") => final_selection # <<>>
    /\ pc = "notify" => final_selection # <<>>

\* C11 happens: every candidate was classified and none was put in a bucket,
\* so the run returned with an empty selection.
C11_Witness ==
    /\ pc = "ret_empty"
    /\ Len(calls) >= 2
    /\ final_selection = <<>>

\* The identifier the claims about deduplicate_by_doi speak of: the trimmed
\* lower-cased DOI, else "title::" + the trimmed lower-cased title.
DedupIdentifier(a) ==
    IF StripLower(a.doi) # <<>> THEN StripLower(a.doi)
    ELSE TitlePrefix \o StripLower(a.title)

\* The positions of xs that hold the first occurrence of their identifier.
FirstOccurrences(xs) ==
    {i \in 1..Len(xs) :
        \A j \in 1..(i - 1) : DedupIdentifier(xs[j]) # DedupIdentifier(xs[i])}

\* The k-th smallest element of a set of numbers.
KthOf(S, k) == CHOOSE i \in S : Cardinality({j \in S : j <= i}) = k

\* The elements of xs at the positions P, in the order of xs.
SubSeqAt(xs, P) == [k \in 1..Cardinality(P) |-> xs[KthOf(P, k)]]

\* ys is a sub-sequence of xs: some strictly increasing choice of positions
\* of xs gives ys.
IsSubSequence(ys, xs) ==
    \E P \in SUBSET (1..Len(xs)) : ys = SubSeqAt(xs, P)

\* C12: deduplicate_by_doi returns the first occurrence of each identifier:
\* no identifier twice in the output, the output is a sub-sequence of the
\* input in the input's order, every identifier of the input is in the
\* output, and applying it to its own output changes nothing.
C12_DedupKeepsFirstOccurrences ==
    /\ [](pc = "dedup_out" =>
            /\ candidates = SubSeqAt(raw_articles, FirstOccurrences(raw_articles))
            /\ \A i, j \in 1..Len(candidates) :
                  i # j => DedupIdentifier(candidates[i]) # DedupIdentifier(candidates[j])
            /\ IsSubSequence(candidates, raw_articles)
            /\ {DedupIdentifier(a) : a \in Range(raw_articles)}
                  = {DedupIdentifier(a) : a \in Range(candidates)})
    /\ [][pc = "dedup_out" => candidates' = candidates]_vars

\* C12 happens: a list of three where the second article is the first one
\* spelled differently was reduced to two, and reduced again.
C12_Witness ==
    /\ pc = "dedup_again"
    /\ Len(raw_articles) = 3
    /\ Len(candidates) = 2
    /\ raw_articles[1] # raw_articles[2]
    /\ DedupIdentifier(raw_articles[1]) = DedupIdentifier(raw_articles[2])

\* normalize(S): lower-cased, trimmed, blanks dropped, duplicates merged.
NormalizeSet(S) == {StripLower(s) : s \in {t \in S : Strip(t) # <<>>}}

\* C13: whatever the file held before, a completed save_pushed_dois(S)
\* followed by load_pushed_dois returns normalize(S), and saving what was
\* just loaded leaves the content of the file as it is.
C13_StoreRoundTrip ==
    /\ []((pc = "store_loaded" /\ written = "ok")
             => loaded = NormalizeSet(pushed_dois))
    /\ [][(pc = "store_loaded" /\ written = "ok" /\ written' = "ok")
             => file' = file]_vars

\* C13 happens: a set with two spellings of one DOI and a blank was saved
\* over a list holding something else, loaded, and saved again.
C13_Witness ==
    /\ pc = "store_resaved"
    /\ written = "ok"
    /\ fileAtStart.kind = "list"
    /\ pushed_dois = { <<"1", "/", "a">>, <<" ", "1", "/", "A">>, <<" ">> }
    /\ loaded = { <<"1", "/", "a">> }
    /\ load_pushed_dois(fileAtStart) # loaded
    /\ file = StoreFile("list", << <<"1", "/", "a">> >>)

\* C14 (as claimed): a run that reads a store file that is not a well-formed
\* list (missing, unreadable, empty, not JSON, not a list) goes on with the
\* empty set; load_pushed_dois does not raise.
C14_CorruptStoreLoadsEmpty ==
    (raw_articles # <<>> /\ fileAtStart.kind # "list")
       => (pc # "raised" /\ loaded = {})

\* C15 (as claimed): at every instant the store file holds the complete
\* content the run found or the complete new list, never an empty or a cut-off
\* file.
C15_StoreWrittenAtomically ==
    \/ file = fileAtStart
    \/ file = StoreFile("list", SavedList(pushed_dois))

\* C16 (as claimed): no exception leaves run().
C16_NothingEscapesRun == pc # "raised"

\* C17 (as claimed): a candidate whose fast_screen call raised was still
\* given to analyze_article.
C17_FastScreenFailsOpen ==
    \A k \in 1..Len(calls) :
        calls[k].screen = "raise" => calls[k].result # "uncalled"

\* C18: send_card returns True exactly when the request completed and the
\* body's code is 0; an HTTP error, a network error, a timeout, or a body
\* with another code or none make it return False, and then the store is not
\* written and nothing joins the pushed set.
C18_SendCardNeedsAcknowledgement ==
    /\ delivery = "true" <=> http = "code_0"
    /\ http \in {"connection_error", "timeout", "http_error", "code_other", "no_code"}
          => /\ delivery = "false"
             /\ written = "none"
             /\ file = fileAtStart
             /\ pushed_dois = loaded

\* C18 happens: the request completed with a code other than 0 for a
\* selection holding a DOI that is not in the store.
C18_Witness ==
    /\ pc = "ret_end"
    /\ http = "code_other"
    /\ delivery = "false"
    /\ \E item \in Items(final_selection) :
          StripLower(item.doi) # <<>> /\ StripLower(item.doi) \notin loaded

\* The API call raised, or its answer could not be read.
IsException(resp) == resp.kind \in {"api_error", "api_timeout", "no_choices"}

\* C19: analyze_article ends after at most 3 API calls.  Only an exception
\* is followed by another attempt, at most twice, and the third exception in
\* a row gives None; "NO", text that is not JSON, JSON that is no object and
\* an object lacking a required key give None on the attempt that got them;
\* a well-formed answer gives its category on the attempt that got it.
C19_AnalyzeBoundedRetries ==
    /\ [](/\ Len(api_calls) <= 3
          /\ \A k \in 1..(Len(api_calls) - 1) : IsException(api_calls[k])
          /\ result \in AnalyzeResults \cup {"pending"}
          /\ pc = "analyze"
                => /\ result = "pending"
                   /\ Len(api_calls) <= 2
                   /\ \A k \in 1..Len(api_calls) : IsException(api_calls[k])
          /\ pc = "analyze_done"
                => LET last == api_calls[Len(api_calls)]
                   IN  IF IsException(last)
                       THEN Len(api_calls) = 3 /\ result = "None"
                       ELSE IF last.kind # "object" THEN result = "None"
                       ELSE IF last.category = "absent" THEN result = "none"
                       ELSE result = last.category)
    /\ <>(pc = "analyze_done")

\* C19 happens: two calls raised and the third brought a well-formed answer.
C19_Witness ==
    /\ pc = "analyze_done"
    /\ Len(api_calls) = 3
    /\ IsException(api_calls[1])
    /\ IsException(api_calls[2])
    /\ api_calls[3] = ApiResponse("object", "carbene")
    /\ result = "carbene"

\* The classifier gave a result whose category is not a configured one.
OffCategory(c) ==
    c.screen = "pass" /\ c.result \notin {"None", "carbene", "methodology"}

\* C20: a candidate whose result carries a category other than carbene and
\* methodology is in no bucket and not in the final selection, the buckets
\* (which the quotas and the early stop count) hold the candidates answered
\* carbene and methodology and no others, and its identifier does not join
\* the pushed set or the store file.
C20_OffCategoryIsDropped ==
    /\ carbene_papers = ClassifiedAs("carbene")
    /\ methodology_papers = ClassifiedAs("methodology")
    /\ \A k \in 1..Len(calls) :
          OffCategory(calls[k])
             => LET a == candidates[calls[k].i]
                IN  /\ \A item \in Items(carbene_papers) \cup Items(methodology_papers)
                                      \cup Items(final_selection) :
                          ArticleOf(item) # a
                    /\ Identifier(a) \notin pushed_dois \ loaded
                    /\ Identifier(a) \notin load_pushed_dois(file) \ loaded

\* C20 happens: a run got the category "Carbene" for a candidate with a DOI
\* and "none" for another, pushed a third and wrote the store.
C20_Witness ==
    /\ pc = "ret_end"
    /\ delivery = "true"
    /\ written = "ok"
    /\ \E k \in 1..Len(calls) :
          /\ calls[k].screen = "pass"
          /\ calls[k].result = "Carbene"
          /\ candidates[calls[k].i].doi # <<>>
    /\ \E k \in 1..Len(calls) :
          calls[k].screen = "pass" /\ calls[k].result = "none"

\* The identifiers recorded in a store file: the entries of the list it
\* holds, normalized, whether or not the list can be read at the moment.
Recorded(f) ==
    IF f.kind \in {"list", "unreadable"} THEN NormalizeSet(Items(f.data)) ELSE {}

\* C21 (as claimed): every identifier recorded in the store file when a run
\* started is recorded in it at every later moment of the run, whatever the
\* load, the selection and the delivery did.
C21_StoreOnlyGrows == Recorded(fileAtStart) \subseteq Recorded(file)

\* The same for the runs whose write completed, failed at the open or was
\* not tried; it does not hold either: what is lost then is lost by the
\* overwrite that follows a failed read.
StoreOnlyGrowsUnlessCutOff ==
    written \in {"none", "ok", "open_failed"}
       => Recorded(fileAtStart) \subseteq Recorded(file)

=============================================================================
